---- MODULE Spec2Model ----
(***************************************************************************)
(* Orbital camera and hotspot focus engine of the "Mondes Immergés" globe  *)
(* (GlobeManager, class le, and Interaction, class de, of                  *)
(* assets/index-Ien1UOMZ.js).                                              *)
(*                                                                         *)
(* Time is explicit and measured in milliseconds.  Every setTimeout and    *)
(* every GSAP tween that carries a completion callback is a record with    *)
(* the time that remains until it is due; time advances only as far as the *)
(* nearest due time, so a callback runs exactly when it is due and         *)
(* callbacks with the same delay run in the order they were scheduled.     *)
(* Speeds are fixed-point numbers in units of 1e-6 rad/frame and zoom      *)
(* levels in units of 1e-4; products are rounded down.  Angles are         *)
(* fixed-point numbers in units of 1e-6 rad.                               *)
(*                                                                         *)
(* An animation frame is the action Animate of the specifications about    *)
(* the frame loop.  In the other specifications the frames only render the *)
(* running tweens (Tick), and orbitAngle records the arrow keys' nudges.   *)
(* The pure computations (geodesy, label placement, visibility test) have  *)
(* specifications of their own, whose initial states draw the inputs.      *)
(*                                                                         *)
(* Covered so far: the focus state machine (activateHotspot,               *)
(* exitHotspotMode, the arrow-key override and their timers), the wheel to *)
(* speed mapper with its quiet-period timer and decay tween, the zoom      *)
(* level, orbitAngle and inclination, the hotspot catalog, the geodesy     *)
(* formulas, the occlusion test and the label layout, orbitHistory, the    *)
(* visibility of the interface with its auto-hide timer, the hotspot       *)
(* search of a globe click, and the camera position.  The camera position  *)
(* is kept as the line through the centre it is on (the orbit's ellipse or *)
(* the ray above a hotspot) and its scale along that line, together with   *)
(* the GSAP tweens of camera.position, which the ticker renders in the     *)
(* order of their creation.  The constructor's init() calls                *)
(* updateCameraPosition once, so the initial state has one orbit step      *)
(* behind it.                                                              *)
(***************************************************************************)
EXTENDS Integers, Sequences, FiniteSets, TLC

\* ---------------------------------------------------------------- bounds
\* input events (clicks, keys, wheel, buttons) in one behaviour, per specification
MaxModeInputs == 4
MaxSpeedInputs == 4
MaxZoomInputs == 5
MaxLiveInputs == 4
\* steps of SmallStep milliseconds in one behaviour
MaxSmallSteps == 1
\* a gap shorter than the 50 ms coalescing window
SmallStep == 25

\* ------------------------------------------------------ program constants
BaseSpeed == 400
MaxSpeed == 2000
ZoomOne == 10000
MinZoomLevel == 6000
MaxZoomLevel == 11000
ArrowDelay == 500
ExitDelay == 500
FocusDuration == 1500
FadeDuration == 1000
QuietDelay == 3000
DecayDuration == 3000
CoalesceWindow == 50
InitialInclination == 523599
MinInclination == 100000
MaxInclination == 1047198
ArrowAngleStep == 50000
ArrowTiltStep == 30000
ExitScrollThreshold == 150
AutoHideDelay == 10000
ZoomDuration == 500
ResetDuration == 1000
FocusDistance == 35000
EllipseMinorAxis == 8
HistoryLimit == 100

\* hotspot ids of the catalog, and the result of a click that hits no hotspot
Hotspots == {"abysses", "arctique"}
NoTarget == "none"
ClickTargets == Hotspots \cup {NoTarget}
\* wheel deltaY values: negative accelerates, positive decelerates
Deltas == {-200, 100, 300}
ArrowKeys == {"ArrowLeft", "ArrowRight", "ArrowUp", "ArrowDown"}
\* the arrows pressed in the mode machine's specification: one that turns the
\* orbit and the one that also leaves the focus
ModeArrowKeys == {"ArrowLeft", "ArrowDown"}

\* entries of the hotspot catalog: id and position in degrees
Catalog == << [id |-> "abysses", lat |-> -11, lng |-> -177],
              [id |-> "arctique", lat |-> 79, lng |-> 13] >>
\* a label as addHotspotLabel creates it: appended to the document, not yet shown
NewLabel == [label |-> 0, connector |-> 0, attached |-> TRUE]

NoTimer == -1
NoStart == -1
NoPage == "none"
DefaultUrl == "https://page-collection-les-ombres-de-la-mer.vercel.app/"

VARIABLES
    isOrbiting,        \* orbitParams.isOrbiting
    inHotspotMode,     \* orbitParams.inHotspotMode
    currentSpeed,      \* orbitParams.currentSpeed
    zoomLevel,         \* orbitParams.zoomLevel
    orbitAngle,        \* orbitParams.orbitAngle
    inclination,       \* orbitParams.inclination
    focusAnims,        \* camera-position tweens of activateHotspot, oldest first
    redirects,         \* fade tweens of _redirectToExternalPage, oldest first
    timers500,         \* pending 500 ms setTimeout callbacks, oldest first
    scrollTimerId,     \* time left on the quiet-period timer, or NoTimer
    scrollAccumulator, \* Interaction.scrollAccumulator
    sinceScroll,       \* Date.now() - lastScrollTime, capped at QuietDelay
    speedTweens,       \* tweens of currentSpeed back to baseSpeed, oldest first
    navigated,         \* window.location.href once the page has been left
    lastOp,            \* the handler or callback that ran last
    quietSinceExit,    \* exitHotspotMode has left the focus and no input came since
    lockedScroll,      \* downward wheel delta received since the focus was locked
    callbackLog,       \* calls of onHotspotSelect / onHotspotExit made by the engine
    interfaceVisible,  \* Interaction.interfaceVisible
    autoHideTimeout,   \* ms until the auto-hide timer fires, NoTimer once it fired
    orbitHistory,      \* orbitParams.orbitHistory
    orbitLog,          \* every camera position updateCameraPosition produced
    camera,            \* camera.position: the line it is on and how far out
    cameraTweens,      \* tweens of camera.position, oldest first
    hotspotObjects,    \* GlobeManager.hotspotObjects: the catalog entries loaded
    labels,            \* per loaded hotspot: opacity of label and connector, in document
    seen,              \* per loaded hotspot: result of the visibility test in the last frame
    frames,            \* animation frames so far
    catalog,           \* argument of addHotspots
    geo,               \* a geodesy conversion in progress
    layout,            \* a label placement in progress
    occl,              \* a visibility test in progress
    inputs,            \* input events so far
    smalls             \* SmallStep time steps so far

vars == <<isOrbiting, inHotspotMode, currentSpeed, zoomLevel, orbitAngle,
          inclination, focusAnims, redirects, timers500, scrollTimerId,
          scrollAccumulator, sinceScroll, speedTweens, navigated, lastOp,
          quietSinceExit, inputs, smalls, lockedScroll, callbackLog,
          hotspotObjects, labels, seen, frames, catalog, geo, layout, occl,
          interfaceVisible, autoHideTimeout, orbitHistory, orbitLog, camera,
          cameraTweens>>

\* the visibility of the interface and its auto-hide timer
interfaceVars == <<interfaceVisible, autoHideTimeout>>
\* the camera's position and the tweens that move it
cameraVars == <<camera, cameraTweens>>
\* the orbit's angle and tilt
orbitVars == <<orbitAngle, inclination>>
\* what only addHotspots, the frame loop and the pure computations write
frameVars == <<callbackLog, hotspotObjects, labels, seen, frames, catalog, geo,
               layout, occl, orbitHistory, orbitLog>>

\* what activateHotspot and exitHotspotMode read and write
modeVars == <<isOrbiting, inHotspotMode, focusAnims, redirects, timers500>>
\* everything of the engine except the bookkeeping of the model
engineVars == <<isOrbiting, inHotspotMode, currentSpeed, zoomLevel, focusAnims,
                redirects, timers500, scrollTimerId, scrollAccumulator,
                speedTweens, navigated, orbitAngle, inclination>>

\* ---------------------------------------------------------------- helpers
Min(a, b) == IF a < b THEN a ELSE b
Max(a, b) == IF a > b THEN a ELSE b
Abs(a) == IF a < 0 THEN -a ELSE a
Sign(a) == IF a > 0 THEN 1 ELSE IF a < 0 THEN -1 ELSE 0

RECURSIVE Pow(_, _)
Pow(b, n) == IF n = 0 THEN 1 ELSE b * Pow(b, n - 1)

\* redirect URL of a hotspot id
RedirectUrls == [h \in {"grande-barriere", "abysses", "arctique", "plastique",
                        "triangle-corail", "requins"} |-> DefaultUrl]
re(id) == IF id \in DOMAIN RedirectUrls THEN RedirectUrls[id] ELSE DefaultUrl

\* the engine after GlobeManager's and Interaction's constructors
InitEngine ==
    /\ isOrbiting = TRUE
    /\ inHotspotMode = FALSE
    /\ currentSpeed = BaseSpeed
    /\ zoomLevel = ZoomOne
    /\ orbitAngle = BaseSpeed
    /\ inclination = InitialInclination
    /\ lockedScroll = 0
    /\ callbackLog = <<>>
    /\ frames = 0
    /\ interfaceVisible = TRUE
    /\ autoHideTimeout = AutoHideDelay
    /\ orbitHistory = <<[angle |-> 0, incl |-> InitialInclination,
                         zoom |-> ZoomOne]>>
    /\ orbitLog = orbitHistory
    /\ camera = [place |-> "ellipse", scale |-> ZoomOne]
    /\ cameraTweens = <<>>
    /\ focusAnims = <<>>
    /\ redirects = <<>>
    /\ timers500 = <<>>
    /\ scrollTimerId = NoTimer
    /\ scrollAccumulator = 0
    /\ sinceScroll = QuietDelay
    /\ speedTweens = <<>>
    /\ navigated = NoPage
    /\ lastOp = "constructor"
    /\ quietSinceExit = FALSE
    /\ inputs = 0
    /\ smalls = 0

\* no pure computation is in progress
Idle == [stage |-> "idle"]

\* the application after App.init: the catalog is loaded, no frame rendered yet
Init ==
    /\ InitEngine
    /\ catalog = Catalog
    /\ hotspotObjects = Catalog
    /\ labels = [i \in DOMAIN Catalog |-> NewLabel]
    /\ seen = [i \in DOMAIN Catalog |-> FALSE]
    /\ geo = Idle
    /\ layout = Idle
    /\ occl = Idle

\* ------------------------------------------------ GlobeManager operations
\* A camera position is a line from the centre of the globe and a scale on
\* it: on "ellipse" the point of the orbit at the current angle scaled by
\* scale / 10^4, on "ray" the point at distance scale / 10^4 above a hotspot;
\* "transit" is a position between two lines.
OnEllipse(z) == [place |-> "ellipse", scale |-> z]
InTransit == [place |-> "transit", scale |-> 0]

\* d.to(camera.position, ...): a tween towards the point at `to` on `place`;
\* its start is read when it first renders
NewTween(place, to, ease, dur) ==
    [place |-> place, to |-> to, ease |-> ease, dur |-> dur, elapsed |-> 0,
     started |-> FALSE, from |-> InTransit]

\* the camera tween of activateHotspot: 1.5 s to 3.5 above the hotspot
FocusTween == NewTween("ray", FocusDistance, "power2.inOut", FocusDuration)
\* the camera tween of zoom(e): 0.5 s to the current position times 0.85 or 1.15
ZoomTween(cam, zoomIn) ==
    NewTween(cam.place, (cam.scale * (IF zoomIn THEN 85 ELSE 115)) \div 100,
             "back.out", ZoomDuration)
\* the camera tween of resetView: 1 s to the point of the unscaled ellipse
ResetTween == NewTween("ellipse", ZoomOne, "elastic.out", ResetDuration)

\* activateHotspot(e): returns at once in hotspot mode; otherwise stops the
\* orbit and starts the 1.5 s camera tween whose onComplete locks the focus
ActivateHotspot(h) ==
    IF inHotspotMode
    THEN UNCHANGED <<modeVars, cameraVars>>
    ELSE /\ isOrbiting' = FALSE
         /\ focusAnims' = Append(focusAnims, [h |-> h, rem |-> FocusDuration])
         /\ cameraTweens' = Append(cameraTweens, FocusTween)
         /\ UNCHANGED <<inHotspotMode, redirects, timers500, camera>>

\* exitHotspotMode without its test of inHotspotMode
ExitHotspotMode_NoGuard ==
    /\ inHotspotMode' = FALSE
    /\ timers500' = Append(timers500,
           [kind |-> "exit", saved |-> TRUE, rem |-> ExitDelay])
    /\ UNCHANGED <<isOrbiting, focusAnims, redirects>>

\* exitHotspotMode(): acts only in hotspot mode; clears the flag and schedules
\* the 500 ms callback that resumes the orbit at baseSpeed
ExitHotspotMode ==
    IF inHotspotMode
    THEN /\ inHotspotMode' = FALSE
         /\ timers500' = Append(timers500,
                [kind |-> "exit", saved |-> TRUE, rem |-> ExitDelay])
         /\ UNCHANGED <<isOrbiting, focusAnims, redirects>>
    ELSE UNCHANGED modeVars

\* zoomLevel after zoom(e) without the clamp
ZoomLevelAfter_NoClamp(z, zoomIn) ==
    (z * (IF zoomIn THEN 85 ELSE 115)) \div 100

\* zoomLevel after zoom(e): scaled by 0.85 or 1.15 and clamped
ZoomLevelAfter(z, zoomIn) ==
    LET t == IF zoomIn THEN 85 ELSE 115
        i == (z * t) \div 100
    IN  Min(Max(i, MinZoomLevel), MaxZoomLevel)

\* zoom(e)
Zoom(zoomIn) ==
    /\ zoomLevel' = ZoomLevelAfter(zoomLevel, zoomIn)
    /\ cameraTweens' = Append(cameraTweens, ZoomTween(camera, zoomIn))
    /\ UNCHANGED camera

\* resetView() that also goes back to the start of the orbit
ResetView_ResetsAngle ==
    /\ zoomLevel' = ZoomOne
    /\ currentSpeed' = BaseSpeed
    /\ orbitAngle' = 0
    /\ cameraTweens' = Append(cameraTweens, ResetTween)
    /\ UNCHANGED <<inclination, modeVars, camera>>

\* resetView(): zoomLevel and currentSpeed go back to their initial values; the
\* camera is then moved to the point of the ellipse at the current orbitAngle
ResetView ==
    /\ zoomLevel' = ZoomOne
    /\ currentSpeed' = BaseSpeed
    /\ cameraTweens' = Append(cameraTweens, ResetTween)
    /\ UNCHANGED <<orbitVars, modeVars, camera>>

\* ------------------------------------------------------------ input events
\* the inputs that call exitHotspotMode when the focus is locked
ExitRequests == {"exitHotspotMode", "Escape", "ArrowDown"}

\* the events that Interaction handles: keydown, wheel and mousemove
InteractionEvents ==
    {"Escape", "ArrowLeft", "ArrowRight", "ArrowUp", "ArrowDown", "zoomIn",
     "zoomOut", "resetView", "h", "wheel", "mousemove"}

\* showInterface(), hideInterface() and toggleInterface(): the value of
\* interfaceVisible after the call
ShowInterface(visible) == TRUE
HideInterface(visible) == FALSE
ToggleInterface(visible) ==
    IF visible THEN HideInterface(visible) ELSE ShowInterface(visible)

\* interfaceVisible after the event: handleKeyDown, handleMouseWheel and the
\* mousemove listener first show the interface and restart the auto-hide
\* timer; the 'h' key then calls toggleInterface
InterfaceAfter(op, visible) ==
    IF op \notin InteractionEvents THEN visible
    ELSE IF op = "h" THEN ToggleInterface(ShowInterface(visible))
    ELSE ShowInterface(visible)

Input(op) ==
    /\ navigated = NoPage
    /\ inputs' = inputs + 1
    /\ lastOp' = op
    /\ quietSinceExit' = (inHotspotMode /\ op \in ExitRequests)
    /\ interfaceVisible' = InterfaceAfter(op, interfaceVisible)
    /\ autoHideTimeout' = IF op \in InteractionEvents THEN AutoHideDelay
                          ELSE autoHideTimeout
    /\ UNCHANGED <<navigated, smalls, frameVars>>

\* onMouseClick(e): ignored in hotspot mode; a click that picks hotspot t
\* (nearest-hotspot search or raycast on the markers) activates it
OnMouseClick(t) ==
    /\ Input("onMouseClick")
    /\ IF inHotspotMode \/ t = NoTarget
       THEN UNCHANGED <<modeVars, cameraVars>>
       ELSE ActivateHotspot(t)
    /\ UNCHANGED <<currentSpeed, zoomLevel, scrollTimerId, scrollAccumulator,
                   sinceScroll, speedTweens, lockedScroll, orbitVars>>

\* exitHotspotModeExternal() called from outside the key handler (the close
\* button of the content panel)
ExitHotspotModeExternal ==
    /\ Input("exitHotspotMode")
    /\ ExitHotspotMode
    /\ UNCHANGED <<currentSpeed, zoomLevel, scrollTimerId, scrollAccumulator,
                   sinceScroll, speedTweens, lockedScroll, orbitVars,
                   cameraVars>>

\* inclination after an arrow key without the two limits
InclinationAfter_NoClamp(incl, key, locked) ==
    IF key = "ArrowUp" /\ ~locked THEN incl + ArrowTiltStep
    ELSE IF key = "ArrowDown" /\ ~locked THEN incl - ArrowTiltStep
    ELSE incl

\* inclination after an arrow key: ArrowUp and ArrowDown move it by 0.03
\* within [0.1, PI/3], outside the hotspot mode only
InclinationAfter(incl, key, locked) ==
    IF key = "ArrowUp" /\ ~locked
        THEN Min(incl + ArrowTiltStep, MaxInclination)
    ELSE IF key = "ArrowDown" /\ ~locked
        THEN Max(incl - ArrowTiltStep, MinInclination)
    ELSE incl

\* handleArrowNavigation(e): saves isOrbiting, stops the orbit and restores
\* the saved value after 500 ms
HandleArrowNavigation(key) ==
    /\ isOrbiting' = FALSE
    /\ orbitAngle' = IF key = "ArrowLeft" THEN orbitAngle + ArrowAngleStep
                     ELSE IF key = "ArrowRight" THEN orbitAngle - ArrowAngleStep
                     ELSE orbitAngle
    /\ inclination' = InclinationAfter(inclination, key, inHotspotMode)
    /\ timers500' = Append(timers500,
            [kind |-> "arrow", saved |-> isOrbiting, rem |-> ArrowDelay])
    /\ camera' = OnEllipse(zoomLevel)
    /\ UNCHANGED <<inHotspotMode, focusAnims, redirects, cameraTweens>>

\* handleKeyDown(e), case "Escape"
KeyEscape ==
    /\ Input("Escape")
    /\ IF inHotspotMode THEN ExitHotspotMode ELSE UNCHANGED modeVars
    /\ UNCHANGED <<currentSpeed, zoomLevel, scrollTimerId, scrollAccumulator,
                   sinceScroll, speedTweens, lockedScroll, orbitVars,
                   cameraVars>>

\* handleKeyDown(e), cases "ArrowUp", "ArrowDown", "ArrowLeft", "ArrowRight"
KeyArrow(key) ==
    /\ Input(key)
    /\ IF inHotspotMode /\ key = "ArrowDown"
       THEN ExitHotspotMode /\ UNCHANGED <<orbitVars, cameraVars>>
       ELSE HandleArrowNavigation(key)
    /\ UNCHANGED <<currentSpeed, zoomLevel, scrollTimerId, scrollAccumulator,
                   sinceScroll, speedTweens, lockedScroll>>

\* handleKeyDown(e), cases "+", "=", "-", "_", and the zoom buttons
KeyZoom(zoomIn) ==
    /\ Input(IF zoomIn THEN "zoomIn" ELSE "zoomOut")
    /\ Zoom(zoomIn)
    /\ UNCHANGED <<modeVars, currentSpeed, scrollTimerId, scrollAccumulator,
                   sinceScroll, speedTweens, lockedScroll, orbitVars>>

\* handleKeyDown(e), cases "r", "R", and the reset button
KeyReset ==
    /\ Input("resetView")
    /\ ResetView
    /\ UNCHANGED <<scrollTimerId, scrollAccumulator, sinceScroll, speedTweens,
                   lockedScroll>>

\* handleKeyDown(e), cases "h" and "H"
KeyH ==
    /\ Input("h")
    /\ UNCHANGED <<modeVars, currentSpeed, zoomLevel, scrollTimerId,
                   scrollAccumulator, sinceScroll, speedTweens, lockedScroll,
                   orbitVars, cameraVars>>

\* the mousemove listener: resetInterfaceAutoHide()
MouseMove ==
    /\ Input("mousemove")
    /\ UNCHANGED <<modeVars, currentSpeed, zoomLevel, scrollTimerId,
                   scrollAccumulator, sinceScroll, speedTweens, lockedScroll,
                   orbitVars, cameraVars>>

\* currentSpeed after a decelerating scroll of magnitude n
Decelerate(speed, n) ==
    Max(BaseSpeed \div 2, (speed * Pow(9, n)) \div Pow(10, n))

\* an accelerating scroll without the cap at maxSpeed
Accelerate_NoCap(speed, n) ==
    (speed * Pow(13, n)) \div Pow(10, n)

\* currentSpeed after an accelerating scroll of magnitude n
Accelerate(speed, n) ==
    Min(MaxSpeed, (speed * Pow(13, n)) \div Pow(10, n))

\* a wheel handler that leaves the focus once the downward scroll received in
\* hotspot mode passes the threshold of handleTouchMove
WheelInHotspotMode_ExitsPastThreshold(deltaY) ==
    /\ Zoom(deltaY < 0)
    /\ IF lockedScroll + deltaY > ExitScrollThreshold
       THEN ExitHotspotMode
       ELSE UNCHANGED modeVars

\* handleMouseWheel(e) in hotspot mode: `zoom(deltaY < 0); return`
WheelInHotspotMode(deltaY) ==
    /\ Zoom(deltaY < 0)
    /\ UNCHANGED modeVars

\* handleMouseWheel(e)
HandleMouseWheel(deltaY) ==
    /\ Input("wheel")
    /\ IF inHotspotMode
       THEN /\ WheelInHotspotMode(deltaY)
            /\ lockedScroll' = Min(lockedScroll + Max(deltaY, 0),
                                   ExitScrollThreshold + 1)
            /\ UNCHANGED <<currentSpeed, scrollTimerId, scrollAccumulator,
                           sinceScroll>>
       ELSE LET i == sinceScroll
                acc == scrollAccumulator + deltaY
                o == Sign(acc)
                n == Min(Abs(acc) \div 100, 2)
            IN  /\ sinceScroll' = 0
                /\ IF i < CoalesceWindow /\ scrollTimerId # NoTimer
                   THEN /\ scrollAccumulator' = acc
                        /\ UNCHANGED <<currentSpeed, scrollTimerId>>
                   ELSE /\ currentSpeed' = IF o > 0
                                           THEN Decelerate(currentSpeed, n)
                                           ELSE Accelerate(currentSpeed, n)
                        /\ scrollAccumulator' = 0
                        /\ scrollTimerId' = QuietDelay
                /\ UNCHANGED <<zoomLevel, lockedScroll, modeVars, cameraVars>>
    /\ UNCHANGED <<speedTweens, orbitVars>>

\* --------------------------------------------------- timers and animations
Callback(op) ==
    /\ navigated = NoPage
    /\ lastOp' = op
    /\ lockedScroll' = IF op = "focusComplete" THEN 0 ELSE lockedScroll
    /\ interfaceVisible' = IF op = "autoHide" THEN HideInterface(interfaceVisible)
                           ELSE interfaceVisible
    /\ autoHideTimeout' = IF op = "autoHide" THEN NoTimer ELSE autoHideTimeout
    /\ UNCHANGED <<inputs, smalls, quietSinceExit, orbitVars, frameVars,
                   cameraVars>>

\* onComplete of the camera tween of activateHotspot: locks the focus and
\* calls _redirectToExternalPage, which starts the 1 s fade
FocusComplete ==
    /\ Callback("focusComplete")
    /\ focusAnims # <<>>
    /\ Head(focusAnims).rem = 0
    /\ inHotspotMode' = TRUE
    /\ redirects' = Append(redirects,
            [h |-> Head(focusAnims).h, rem |-> FadeDuration])
    /\ focusAnims' = Tail(focusAnims)
    /\ UNCHANGED <<isOrbiting, timers500, currentSpeed, zoomLevel, scrollTimerId,
                   scrollAccumulator, sinceScroll, speedTweens, navigated>>

\* the fade's onComplete of a redirect that is dropped once the focus was left
RedirectComplete_OnlyWhileLocked ==
    /\ navigated = NoPage
    /\ inHotspotMode
    /\ redirects # <<>>
    /\ Head(redirects).rem = 0
    /\ navigated' = re(Head(redirects).h)
    /\ redirects' = Tail(redirects)
    /\ lastOp' = "redirect"
    /\ UNCHANGED <<isOrbiting, inHotspotMode, focusAnims, timers500, currentSpeed,
                   zoomLevel, scrollTimerId, scrollAccumulator, sinceScroll,
                   speedTweens, inputs, smalls, quietSinceExit, lockedScroll,
                   orbitVars, frameVars, interfaceVars, cameraVars>>

\* onComplete of the fade of _redirectToExternalPage: leaves the page
RedirectComplete ==
    /\ navigated = NoPage
    /\ redirects # <<>>
    /\ Head(redirects).rem = 0
    /\ navigated' = re(Head(redirects).h)
    /\ redirects' = Tail(redirects)
    /\ lastOp' = "redirect"
    /\ UNCHANGED <<isOrbiting, inHotspotMode, focusAnims, timers500, currentSpeed,
                   zoomLevel, scrollTimerId, scrollAccumulator, sinceScroll,
                   speedTweens, inputs, smalls, quietSinceExit, lockedScroll,
                   orbitVars, frameVars, interfaceVars, cameraVars>>

\* the setTimeout callback of exitHotspotMode
ExitTimerFire ==
    /\ Callback("exitTimer")
    /\ timers500 # <<>>
    /\ Head(timers500).rem = 0
    /\ Head(timers500).kind = "exit"
    /\ isOrbiting' = TRUE
    /\ currentSpeed' = BaseSpeed
    /\ timers500' = Tail(timers500)
    /\ UNCHANGED <<inHotspotMode, focusAnims, redirects, zoomLevel, scrollTimerId,
                   scrollAccumulator, sinceScroll, speedTweens, navigated>>

\* the setTimeout callback of handleArrowNavigation
ArrowTimerFire ==
    /\ Callback("arrowTimer")
    /\ timers500 # <<>>
    /\ Head(timers500).rem = 0
    /\ Head(timers500).kind = "arrow"
    /\ isOrbiting' = Head(timers500).saved
    /\ timers500' = Tail(timers500)
    /\ UNCHANGED <<inHotspotMode, focusAnims, redirects, currentSpeed, zoomLevel,
                   scrollTimerId, scrollAccumulator, sinceScroll, speedTweens,
                   navigated>>

\* the quiet-period callback without the tween back to baseSpeed
ScrollTimerFire_NoDecay ==
    /\ Callback("scrollTimer")
    /\ scrollTimerId = 0
    /\ scrollTimerId' = NoTimer
    /\ UNCHANGED <<modeVars, currentSpeed, zoomLevel, scrollAccumulator,
                   sinceScroll, speedTweens, navigated>>

\* the setTimeout callback of handleMouseWheel: starts the 3 s tween of
\* currentSpeed to baseSpeed
ScrollTimerFire ==
    /\ Callback("scrollTimer")
    /\ scrollTimerId = 0
    /\ speedTweens' = Append(speedTweens, [start |-> NoStart, elapsed |-> 0])
    /\ scrollTimerId' = NoTimer
    /\ UNCHANGED <<modeVars, currentSpeed, zoomLevel, scrollAccumulator,
                   sinceScroll, navigated>>

\* the setTimeout callback of startInterfaceAutoHide: hideInterface()
AutoHideFire ==
    /\ Callback("autoHide")
    /\ autoHideTimeout = 0
    /\ UNCHANGED <<modeVars, currentSpeed, zoomLevel, scrollTimerId,
                   scrollAccumulator, sinceScroll, speedTweens, navigated>>

\* value of a currentSpeed tween started at value start, e ms after its start:
\* ease "power2.out", 1 - (1 - p)^2, towards baseSpeed
TweenValue(start, e) ==
    LET left == DecayDuration - Min(e, DecayDuration)
        once == ((BaseSpeed - start) * left) \div DecayDuration
    IN  BaseSpeed - ((once * left) \div DecayDuration)

\* one pass of the GSAP ticker over the currentSpeed tweens, d ms after the
\* previous pass: a tween reads its start value on its first render, writes
\* its current value, and is dropped once its duration has elapsed
RECURSIVE RenderTweens(_, _, _)
RenderTweens(tweens, speed, d) ==
    IF tweens = <<>>
    THEN [tweens |-> <<>>, speed |-> speed]
    ELSE LET t == Head(tweens)
             start == IF t.start = NoStart THEN speed ELSE t.start
             e == t.elapsed + d
             rest == RenderTweens(Tail(tweens), TweenValue(start, e), d)
         IN  IF e >= DecayDuration
             THEN rest
             ELSE [tweens |-> <<[start |-> start, elapsed |-> e]>> \o rest.tweens,
                   speed |-> rest.speed]

\* 10^4 times the ease "back.out(1.2)" e ms into a zoom tween:
\* 1 + q^2 (2.2 q + 1.2) with q = e / 500 - 1
BackOut(e) ==
    LET q == e - ZoomDuration
    IN  10000 + (q * q * (22 * q + 6000)) \div 125000

\* the camera position a tween started at position start writes e ms after
\* its start: its target once its duration has elapsed, the eased point on
\* the way for a zoom along one line
TweenPose(t, start, e) ==
    IF e >= t.dur
    THEN [place |-> t.place, scale |-> t.to]
    ELSE IF t.ease = "back.out" /\ start.place = t.place /\ t.place # "transit"
    THEN [place |-> t.place,
          scale |-> start.scale + ((t.to - start.scale) * BackOut(e)) \div 10000]
    ELSE InTransit

\* one pass of the GSAP ticker over the tweens of camera.position, d ms after
\* the previous pass, in the order of their creation
RECURSIVE RenderCamera(_, _, _)
RenderCamera(tweens, cam, d) ==
    IF tweens = <<>>
    THEN [tweens |-> <<>>, camera |-> cam]
    ELSE LET t == Head(tweens)
             start == IF t.started THEN t.from ELSE cam
             e == t.elapsed + d
             rest == RenderCamera(Tail(tweens), TweenPose(t, start, e), d)
         IN  IF e >= t.dur
             THEN rest
             ELSE [tweens |-> <<[t EXCEPT !.started = TRUE, !.from = start,
                                          !.elapsed = e]>> \o rest.tweens,
                   camera |-> rest.camera]

\* the times left until each pending callback is due
Rems ==
    {focusAnims[i].rem : i \in DOMAIN focusAnims}
    \cup {redirects[i].rem : i \in DOMAIN redirects}
    \cup {timers500[i].rem : i \in DOMAIN timers500}
    \cup {DecayDuration - speedTweens[i].elapsed : i \in DOMAIN speedTweens}
    \cup (IF scrollTimerId = NoTimer THEN {} ELSE {scrollTimerId})
    \cup (IF autoHideTimeout = NoTimer THEN {} ELSE {autoHideTimeout})

\* the time until the next callback is due; a long idle period if none is pending
NextDue ==
    IF Rems = {} THEN QuietDelay ELSE CHOOSE r \in Rems : \A q \in Rems : r <= q

Later(seq, d) == [i \in DOMAIN seq |-> [seq[i] EXCEPT !.rem = @ - d]]

\* d ms pass: every pending callback comes d ms closer and the animation
\* frames in between render the running tweens
Tick(d) ==
    /\ navigated = NoPage
    /\ d > 0
    /\ \A r \in Rems : r >= d
    /\ focusAnims' = Later(focusAnims, d)
    /\ redirects' = Later(redirects, d)
    /\ timers500' = Later(timers500, d)
    /\ scrollTimerId' = IF scrollTimerId = NoTimer THEN NoTimer ELSE scrollTimerId - d
    /\ autoHideTimeout' = IF autoHideTimeout = NoTimer THEN NoTimer
                          ELSE autoHideTimeout - d
    /\ sinceScroll' = Min(sinceScroll + d, QuietDelay)
    /\ LET r == RenderTweens(speedTweens, currentSpeed, d)
       IN  /\ speedTweens' = r.tweens
           /\ currentSpeed' = r.speed
    /\ LET r == RenderCamera(cameraTweens, camera, d)
       IN  /\ cameraTweens' = r.tweens
           /\ camera' = r.camera
    /\ lastOp' = "tick"
    /\ UNCHANGED <<isOrbiting, inHotspotMode, zoomLevel, scrollAccumulator,
                   navigated, inputs, quietSinceExit, lockedScroll, orbitVars,
                   frameVars, interfaceVisible>>

\* a gap shorter than the coalescing window
AdvanceSmall ==
    /\ smalls < MaxSmallSteps
    /\ Tick(SmallStep)
    /\ smalls' = smalls + 1

\* time runs on to the next due callback
AdvanceToDue ==
    /\ Tick(NextDue)
    /\ UNCHANGED smalls

\* ---------------------------------------------------------- specifications
\* focus state machine: clicks, exits, arrow keys and their callbacks; an
\* input may follow another within a short gap while a 500 ms timer is pending
Next ==
    \/ inputs < MaxModeInputs /\ \E t \in ClickTargets : OnMouseClick(t)
    \/ inputs < MaxModeInputs /\ ExitHotspotModeExternal
    \/ inputs < MaxModeInputs /\ KeyEscape
    \/ inputs < MaxModeInputs /\ \E k \in ModeArrowKeys : KeyArrow(k)
    \/ FocusComplete
    \/ RedirectComplete
    \/ ExitTimerFire
    \/ ArrowTimerFire
    \/ timers500 # <<>> /\ AdvanceSmall
    \/ AutoHideFire
    \/ AdvanceToDue

Spec == Init /\ [][Next]_vars

\* orbital speed: wheel events, the quiet-period timer and the decay tween,
\* with resetView and a focus cycle in between; a wheel event may follow
\* another within the coalescing window while the quiet timer is pending
NextSpeed ==
    \/ inputs < MaxSpeedInputs /\ \E dy \in Deltas : HandleMouseWheel(dy)
    \/ inputs < MaxSpeedInputs /\ KeyReset
    \/ inputs < MaxSpeedInputs /\ \E t \in Hotspots : OnMouseClick(t)
    \/ inputs < MaxSpeedInputs /\ ExitHotspotModeExternal
    \/ FocusComplete
    \/ RedirectComplete
    \/ ExitTimerFire
    \/ ScrollTimerFire
    \/ scrollTimerId # NoTimer /\ AdvanceSmall
    \/ AutoHideFire
    \/ AdvanceToDue

SpecSpeed == Init /\ [][NextSpeed]_vars

\* zoom commands in every mode
NextZoom ==
    \/ inputs < MaxZoomInputs /\ \E z \in BOOLEAN : KeyZoom(z)
    \/ inputs < MaxZoomInputs /\ KeyReset
    \/ inputs < MaxZoomInputs /\ \E t \in Hotspots : OnMouseClick(t)
    \/ inputs < MaxZoomInputs /\ ExitHotspotModeExternal
    \/ FocusComplete
    \/ RedirectComplete
    \/ ExitTimerFire
    \/ AutoHideFire
    \/ AdvanceToDue

SpecZoom == Init /\ [][NextZoom]_vars

\* wheel events while orbiting; the event loop runs every due timer and the
\* animation frames keep coming
NextLive ==
    \/ inputs < MaxLiveInputs /\ \E dy \in Deltas : HandleMouseWheel(dy)
    \/ ScrollTimerFire
    \/ AdvanceSmall
    \/ AutoHideFire
    \/ AdvanceToDue

SpecLive ==
    /\ Init
    /\ [][NextLive]_vars
    /\ WF_vars(ScrollTimerFire)
    /\ WF_vars(AdvanceToDue)

\* ------------------------------------------------------- focus state machine
\* an exit delay is pending
ExitPending == \E i \in DOMAIN timers500 : timers500[i].kind = "exit"

\* the mode of the engine, derived from its flags, tweens and timers
Mode ==
    IF inHotspotMode THEN "Locked"
    ELSE IF focusAnims # <<>> THEN "TransitioningToFocus"
    ELSE IF ExitPending THEN "TransitioningToOrbit"
    ELSE "Orbiting"

\* the step is a call of a handler named in ops
Called(ops) == lastOp' \in ops /\ inputs' = inputs + 1

\* C1: a click that reaches activateHotspot in a mode other than Orbiting
\* changes nothing: no flag, no camera tween, no callback, no redirect.
C1_ActivateOutsideOrbitingIsNoOp ==
    [][(Called({"onMouseClick"}) /\ Mode # "Orbiting") => UNCHANGED engineVars]_vars

\* C2: never two focus camera tweens, and never two redirects, in flight.
C2_AtMostOneFocusTarget ==
    Len(focusAnims) <= 1 /\ Len(redirects) <= 1

\* C3: the mode starts as Orbiting and changes only along the cycle
\* Orbiting -> TransitioningToFocus -> Locked -> TransitioningToOrbit -> Orbiting.
CycleEdges ==
    { <<"Orbiting", "TransitioningToFocus">>,
      <<"TransitioningToFocus", "Locked">>,
      <<"Locked", "TransitioningToOrbit">>,
      <<"TransitioningToOrbit", "Orbiting">> }

C3_ModeFollowsCycle ==
    /\ Mode = "Orbiting"
    /\ [][Mode' # Mode => <<Mode, Mode'>> \in CycleEdges]_vars

\* nothing is pending: every timer has fired and every tween that ends in a
\* callback has ended (the redirect fade, which ends the page, aside)
Settled ==
    /\ navigated = NoPage
    /\ timers500 = <<>>
    /\ scrollTimerId = NoTimer
    /\ speedTweens = <<>>
    /\ focusAnims = <<>>

\* C4: after exitHotspotMode has left the focus, once the timers have fired
\* and no input has arrived, the orbit runs again at baseSpeed, unlocked.
C4_ExitResumesOrbit ==
    (quietSinceExit /\ Settled) =>
        (isOrbiting /\ ~inHotspotMode /\ currentSpeed = BaseSpeed)

\* C5: an exit request made when the focus is not locked changes nothing and
\* schedules nothing.
C5_ExitOutsideLockedIsNoOp ==
    [][(Called({"exitHotspotMode", "Escape"}) /\ ~inHotspotMode)
          => UNCHANGED engineVars]_vars

\* an exit request was ignored while a focus transition was in flight, and
\* the transition is still in flight
C5_Witness ==
    /\ lastOp = "exitHotspotMode"
    /\ ~quietSinceExit
    /\ ~inHotspotMode
    /\ focusAnims # <<>>

\* C6: in Orbiting mode, once every arrow restore timer has fired the orbit
\* runs again.
C6_ArrowOverrideIsTemporary ==
    (Mode = "Orbiting" /\ timers500 = <<>> /\ navigated = NoPage) => isOrbiting

\* ------------------------------------------------------------ orbital speed
\* C7: currentSpeed stays between half of baseSpeed and maxSpeed.
C7_SpeedWithinBounds ==
    BaseSpeed \div 2 <= currentSpeed /\ currentSpeed <= MaxSpeed

\* an accelerating scroll has been cut off at maxSpeed
C7_Witness ==
    lastOp = "wheel" /\ currentSpeed = MaxSpeed /\ scrollTimerId = QuietDelay

\* C8: once the wheel events have stopped, currentSpeed returns to baseSpeed
\* and stays there.
C8_SpeedConvergesToBase ==
    <>[](currentSpeed = BaseSpeed)

\* a wheel event changed the speed and the decay tween has just brought it back
C8_Witness ==
    /\ inputs > 0
    /\ lastOp = "tick"
    /\ sinceScroll = QuietDelay
    /\ scrollTimerId = NoTimer
    /\ speedTweens = <<>>
    /\ currentSpeed = BaseSpeed

\* C9: when the quiet-period timer fires, the most recent wheel event is at
\* least 3 s old.
C9_DecayAfterQuietPeriod ==
    lastOp = "scrollTimer" => sinceScroll >= QuietDelay

\* --------------------------------------------------------------------- zoom
\* C10: zoomLevel stays between minZoomLevel and maxZoomLevel.
C10_ZoomWithinBounds ==
    MinZoomLevel <= zoomLevel /\ zoomLevel <= MaxZoomLevel

\* a zoom-in has been cut off at minZoomLevel
C10_Witness ==
    lastOp = "zoomIn" /\ zoomLevel = MinZoomLevel

(***************************************************************************)
(* Zoom while Locked                                                       *)
(***************************************************************************)

\* the parameters of the orbital ellipse that a handler can change
ellipseVars == <<zoomLevel, orbitAngle, inclination>>

\* C11: a zoom command (key, button or wheel) issued while Locked leaves
\* zoomLevel and the other parameters of the orbital ellipse unchanged; it
\* only moves the camera along its view axis.
C11_ZoomWhileLockedKeepsEllipse ==
    [][(Called({"zoomIn", "zoomOut", "wheel"}) /\ inHotspotMode)
          => UNCHANGED ellipseVars]_vars

(***************************************************************************)
(* Geodesy: addHotspots places a marker from (lat, lng), onMouseClick      *)
(* converts a point of the globe back to (lat, lng).  Angles are degrees   *)
(* on the 45 degree grid, where sine and cosine are exact: a number is a   *)
(* pair <<a, b>> standing for (a + b * sqrt(2)) / 2.                       *)
(***************************************************************************)

GridLats == {-90, -45, 0, 45, 90}
GridLngs == {-180, -135, -90, -45, 0, 45, 90, 135, 180}

Zero == <<0, 0>>
One == <<2, 0>>
HalfSqrt2 == <<0, 1>>
Neg(p) == <<-p[1], -p[2]>>
Mul(p, q) == <<(p[1] * q[1] + 2 * p[2] * q[2]) \div 2,
               (p[1] * q[2] + p[2] * q[1]) \div 2>>
\* sign of (a + b * sqrt(2)) / 2
SignOf(p) ==
    IF p[1] >= 0 /\ p[2] >= 0 THEN (IF p = Zero THEN 0 ELSE 1)
    ELSE IF p[1] <= 0 /\ p[2] <= 0 THEN -1
    ELSE IF p[1] > 0 THEN (IF p[1] * p[1] > 2 * p[2] * p[2] THEN 1 ELSE -1)
    ELSE (IF 2 * p[2] * p[2] > p[1] * p[1] THEN 1 ELSE -1)
AbsNum(p) == IF SignOf(p) < 0 THEN Neg(p) ELSE p

\* Math.cos and Math.sin of d degrees, d a multiple of 45 in [-180, 180]
CosDeg(d) ==
    CASE Abs(d) = 0 -> One
      [] Abs(d) = 45 -> HalfSqrt2
      [] Abs(d) = 90 -> Zero
      [] Abs(d) = 135 -> Neg(HalfSqrt2)
      [] Abs(d) = 180 -> Neg(One)
SinDeg(d) ==
    CASE d \in {0, 180, -180} -> Zero
      [] d \in {45, 135} -> HalfSqrt2
      [] d = 90 -> One
      [] d \in {-45, -135} -> Neg(HalfSqrt2)
      [] d = -90 -> Neg(One)
\* Math.acos in degrees
AcosDeg(v) == CHOOSE d \in {0, 45, 90, 135, 180} : CosDeg(d) = v
\* Math.atan2(z, x) in degrees: 0 at (0, 0), otherwise in (-180, 180]
Atan2Deg(z, x) ==
    LET sx == SignOf(x)
        sz == SignOf(z)
    IN  CASE sz = 0 /\ sx >= 0 -> 0
          [] sz = 0 /\ sx < 0 -> 180
          [] sx = 0 -> 90 * sz
          [] AbsNum(x) = AbsNum(z) /\ sx > 0 -> 45 * sz
          [] AbsNum(x) = AbsNum(z) /\ sx < 0 -> 135 * sz

\* addHotspots: direction of the marker of (lat, lng); the marker sits at 2.1
\* times this unit vector
HotspotDirection(lat, lng) ==
    [x |-> Mul(CosDeg(lat), CosDeg(lng)),
     y |-> SinDeg(lat),
     z |-> Mul(CosDeg(lat), SinDeg(lng))]

\* onMouseClick: (lat, lng) of a point of the globe; o is the point divided by
\* the globe's radius 2
ClickToGeo(o) ==
    [lat |-> 90 - AcosDeg(o.y),
     lng |-> Atan2Deg(o.z, o.x) - 180]

\* what the handlers of the mode machine change
restVars == <<engineVars, sinceScroll, quietSinceExit, inputs, smalls,
              lockedScroll, interfaceVars, cameraVars>>

NoPoint == [x |-> Zero, y |-> Zero, z |-> Zero]

InitGeo ==
    /\ InitEngine
    /\ catalog = Catalog
    /\ hotspotObjects = Catalog
    /\ labels = [i \in DOMAIN Catalog |-> NewLabel]
    /\ seen = [i \in DOMAIN Catalog |-> FALSE]
    /\ layout = Idle
    /\ occl = Idle
    /\ \E lat \in GridLats, lng \in GridLngs :
           geo = [stage |-> "entry", lat |-> lat, lng |-> lng, o |-> NoPoint,
                  outLat |-> 0, outLng |-> 0]

\* addHotspots computes the marker's position
PlaceMarker ==
    /\ geo.stage = "entry"
    /\ geo' = [geo EXCEPT !.stage = "placed",
                          !.o = HotspotDirection(geo.lat, geo.lng)]
    /\ lastOp' = "addHotspots"
    /\ UNCHANGED <<restVars, orbitHistory, orbitLog, callbackLog,
                   hotspotObjects, labels, seen, frames,
                   catalog, layout, occl>>

\* a click hits the globe right under the marker
ClickUnderMarker ==
    /\ geo.stage = "placed"
    /\ LET g == ClickToGeo(geo.o)
       IN  geo' = [geo EXCEPT !.stage = "clicked", !.outLat = g.lat,
                              !.outLng = g.lng]
    /\ lastOp' = "onMouseClick"
    /\ UNCHANGED <<restVars, orbitHistory, orbitLog, callbackLog,
                   hotspotObjects, labels, seen, frames,
                   catalog, layout, occl>>

NextGeo ==
    \/ PlaceMarker
    \/ ClickUnderMarker

SpecGeo == InitGeo /\ [][NextGeo]_vars

\* C12: placing a marker with addHotspots' formula and converting the point
\* under it with onMouseClick's formula gives back the original (lat, lng).
C12_GeodesyRoundTrip ==
    geo.stage = "clicked" => (geo.outLat = geo.lat /\ geo.outLng = geo.lng)

(***************************************************************************)
(* Loading a catalog                                                       *)
(***************************************************************************)

MaxCatalog == 2
TestLats == {-91, -90, 0, 90, 91}
TestLngs == {-181, -180, 0, 180, 181}
TestEntries == {[id |-> "abysses", lat |-> lat, lng |-> lng] :
                   lat \in TestLats, lng \in TestLngs}
SeqsUpTo(S, n) == UNION {[1..k -> S] : k \in 0..n}

\* GlobeManager before App.init calls addHotspots
InitCatalog ==
    /\ InitEngine
    /\ catalog \in SeqsUpTo(TestEntries, MaxCatalog)
    /\ hotspotObjects = <<>>
    /\ labels = <<>>
    /\ seen = <<>>
    /\ geo = Idle
    /\ layout = Idle
    /\ occl = Idle

\* addHotspots(e), called once by App.init: the old objects are dropped, every
\* entry of e gets a marker and a label
AddHotspots ==
    /\ lastOp = "constructor"
    /\ hotspotObjects' = catalog
    /\ labels' = [i \in DOMAIN catalog |-> NewLabel]
    /\ seen' = [i \in DOMAIN catalog |-> FALSE]
    /\ lastOp' = "addHotspots"
    /\ UNCHANGED <<restVars, orbitHistory, orbitLog, callbackLog, frames,
                   catalog, geo, layout, occl>>

NextCatalog == AddHotspots

SpecCatalog == InitCatalog /\ [][NextCatalog]_vars

InRange(e) == -90 <= e.lat /\ e.lat <= 90 /\ -180 <= e.lng /\ e.lng <= 180

\* C13: addHotspots rejects every entry whose lat is outside [-90, 90] or whose
\* lng is outside [-180, 180], and still loads the valid entries.
C13_OutOfRangeRejected ==
    lastOp = "addHotspots" => hotspotObjects = SelectSeq(catalog, InRange)

(***************************************************************************)
(* The frame loop: animate() advances the orbit and refreshes every label. *)
(* The camera pose is not state of this model, so the result of the        *)
(* visibility test of a hotspot is any boolean.                            *)
(***************************************************************************)

MaxFrames == 3
MaxFrameInputs == 2

\* updateCameraPosition, called by animate when isOrbiting and not inHotspotMode
OrbitAngleAfterFrame ==
    IF isOrbiting /\ ~inHotspotMode THEN orbitAngle + currentSpeed ELSE orbitAngle

\* onBeforeRender shows the label whatever the mode
OnBeforeRender_IgnoresMode(lab, visible) ==
    IF visible
    THEN [lab EXCEPT !.label = 1, !.connector = 1]
    ELSE [lab EXCEPT !.label = 0, !.connector = 0]

\* onBeforeRender of one hotspot: label and connector get opacity 1 when the
\* visibility test passes outside the hotspot mode, opacity 0 otherwise
OnBeforeRender(lab, visible) ==
    IF visible /\ ~inHotspotMode
    THEN [lab EXCEPT !.label = 1, !.connector = 1]
    ELSE [lab EXCEPT !.label = 0, !.connector = 0]

\* the camera position that updateCameraPosition computes: the point of the
\* ellipse scaled by zoomLevel at orbitAngle, tilted by inclination
EllipsePoint == [angle |-> orbitAngle, incl |-> inclination, zoom |-> zoomLevel]

\* orbitHistory after a push that never drops an entry
PushHistory_Unbounded(hist, pos) == Append(hist, pos)

\* orbitHistory.push(pos); orbitHistory.length > 100 && orbitHistory.shift()
PushHistory(hist, pos) ==
    LET h == Append(hist, pos)
    IN  IF Len(h) > HistoryLimit THEN Tail(h) ELSE h

\* one animation frame
Animate ==
    /\ navigated = NoPage
    /\ frames' = frames + 1
    /\ orbitAngle' = OrbitAngleAfterFrame
    /\ IF isOrbiting /\ ~inHotspotMode
       THEN /\ orbitHistory' = PushHistory(orbitHistory, EllipsePoint)
            /\ orbitLog' = Append(orbitLog, EllipsePoint)
            /\ camera' = OnEllipse(zoomLevel)
       ELSE UNCHANGED <<orbitHistory, orbitLog, camera>>
    /\ \E v \in [DOMAIN hotspotObjects -> BOOLEAN] :
           /\ seen' = v
           /\ labels' = [i \in DOMAIN hotspotObjects |->
                            OnBeforeRender(labels[i], v[i])]
    /\ lastOp' = "animate"
    /\ UNCHANGED <<isOrbiting, inHotspotMode, currentSpeed, zoomLevel,
                   inclination, focusAnims, redirects, timers500, scrollTimerId,
                   scrollAccumulator, sinceScroll, speedTweens, navigated,
                   quietSinceExit, inputs, smalls, lockedScroll, callbackLog,
                   hotspotObjects, catalog, geo, layout, occl, interfaceVars,
                   cameraTweens>>

\* frames interleaved with a focus cycle
NextFrame ==
    \/ inputs < MaxFrameInputs /\ \E t \in Hotspots : OnMouseClick(t)
    \/ inputs < MaxFrameInputs /\ ExitHotspotModeExternal
    \/ FocusComplete
    \/ RedirectComplete
    \/ ExitTimerFire
    \/ frames < MaxFrames /\ Animate
    \/ AutoHideFire
    \/ AdvanceToDue

SpecFrame == Init /\ [][NextFrame]_vars

\* C14: after every frame, the label and the connector of a hotspot are shown
\* exactly when its visibility test passed and the mode is not Locked;
\* otherwise both have opacity 0, and they stay in the document.
C14_LabelShownIffVisibleAndNotLocked ==
    lastOp = "animate" =>
        \A i \in DOMAIN hotspotObjects :
            /\ labels[i].attached
            /\ labels[i].label = (IF seen[i] /\ ~inHotspotMode THEN 1 ELSE 0)
            /\ labels[i].connector = labels[i].label

\* a frame in Locked mode has left hidden, and in the document, the label of
\* a hotspot that passed the visibility test
C14_Witness ==
    /\ lastOp = "animate"
    /\ inHotspotMode
    /\ \E i \in DOMAIN hotspotObjects :
           seen[i] /\ labels[i].label = 0 /\ labels[i].attached

(***************************************************************************)
(* Label layout: the placement computed by onBeforeRender for a hotspot    *)
(* that passed the visibility test.  Lengths are pixels.  Inside the clear *)
(* zone the placement needs the sine and cosine of the marker's angle, so  *)
(* those markers are taken at the centre and on the two axes through it,   *)
(* where sin(w), cos(w) and sin(5w) are 0, 1 or -1.                        *)
(***************************************************************************)

\* window.innerWidth and window.innerHeight
Viewports == {<<400, 300>>, <<200, 200>>}
\* marker positions relative to the centre of the viewport
MarkerOffsets == {-200, -150, -100, -50, 0, 50, 100, 150, 200}
\* title.length: "Les Abysses", "Grande Barrière de Corail"
TitleLengths == {11, 26}
LabelMargin == 20
ConnectorGap == 10

\* E < M, with M = min(m, h) * 0.6
InClearZone(W, H, p, u) ==
    LET m == W \div 2
        h == H \div 2
    IN  25 * ((p - m) * (p - m) + (u - h) * (u - h)) < 9 * Min(m, h) * Min(m, h)

Clamp(x, lo, hi) == IF x < lo THEN lo ELSE IF x > hi THEN hi ELSE x

\* the if branch: the label goes on the ray from the centre through the
\* marker, at radius M + 60 + sin(5w) * 20, and is clamped to the margins
InnerPosition(W, H, p, u) ==
    LET m == W \div 2
        h == H \div 2
        M == (Min(m, h) * 6) \div 10
        cosw == IF u = h THEN (IF p < m THEN -1 ELSE 1) ELSE 0
        sinw == IF u = h THEN 0 ELSE Sign(u - h)
        sin5w == sinw    \* sin(5w) = sin(w) for w = 0, 90, 180 and -90 degrees
        S == M + 60 + sin5w * 20
    IN  [left |-> Clamp(m + cosw * S, LabelMargin, W - LabelMargin),
         top |-> Clamp(h + sinw * S, LabelMargin, H - LabelMargin)]

\* the label always goes to the right of the marker
OuterLeft_NeverFlips(W, p, len) ==
    LET S == len * 8
        f == 25 + (S \div 4)
    IN  p + f

\* the else branch, horizontally: right of the marker unless the label would
\* pass the right margin
OuterLeft(W, p, len) ==
    LET S == len * 8
        f == 25 + (S \div 4)
    IN  IF p + f + S > W - LabelMargin THEN p - f - S ELSE p + f

\* the else branch, vertically: above the marker unless too close to the top
OuterTop(u) ==
    IF u - ConnectorGap - 30 < LabelMargin THEN u + ConnectorGap
    ELSE u - ConnectorGap

LabelPosition(W, H, p, u, len) ==
    IF InClearZone(W, H, p, u)
    THEN InnerPosition(W, H, p, u)
    ELSE [left |-> OuterLeft(W, p, len), top |-> OuterTop(u)]

\* a marker on the screen for which the placement is computed exactly
Computable(W, H, p, u) ==
    /\ 0 <= p /\ p <= W /\ 0 <= u /\ u <= H
    /\ InClearZone(W, H, p, u) => (p = W \div 2 \/ u = H \div 2)

InitLayout ==
    /\ InitEngine
    /\ catalog = Catalog
    /\ hotspotObjects = Catalog
    /\ labels = [i \in DOMAIN Catalog |-> NewLabel]
    /\ seen = [i \in DOMAIN Catalog |-> FALSE]
    /\ geo = Idle
    /\ occl = Idle
    /\ \E vp \in Viewports, dx \in MarkerOffsets, dy \in MarkerOffsets,
          len \in TitleLengths :
           LET W == vp[1]
               H == vp[2]
               p == (W \div 2) + dx
               u == (H \div 2) + dy
           IN  /\ Computable(W, H, p, u)
               /\ layout = [stage |-> "marker", W |-> W, H |-> H, p |-> p,
                            u |-> u, len |-> len, left |-> 0, top |-> 0]

\* onBeforeRender places the label
PlaceLabel ==
    /\ layout.stage = "marker"
    /\ LET pos == LabelPosition(layout.W, layout.H, layout.p, layout.u,
                                layout.len)
       IN  layout' = [layout EXCEPT !.stage = "placed", !.left = pos.left,
                                    !.top = pos.top]
    /\ lastOp' = "onBeforeRender"
    /\ UNCHANGED <<restVars, orbitHistory, orbitLog, callbackLog,
                   hotspotObjects, labels, seen, frames,
                   catalog, geo, occl>>

NextLayout == PlaceLabel

SpecLayout == InitLayout /\ [][NextLayout]_vars

\* C15: in both placement branches the label's position satisfies
\* 20 <= left <= W - 20 and 20 <= top <= H - 20.
C15_LabelWithinMargins ==
    layout.stage = "placed" =>
        /\ 20 <= layout.left /\ layout.left <= layout.W - 20
        /\ 20 <= layout.top /\ layout.top <= layout.H - 20

\* C16: outside the clear zone a label of len characters is 8 * len wide and
\* 25 + 2 * len away from the marker; when markerX + offset + width passes
\* W - 20 it is put at markerX - offset - width, otherwise at markerX + offset.
C16_LabelFlipsAtRightEdge ==
    (layout.stage = "placed"
        /\ ~InClearZone(layout.W, layout.H, layout.p, layout.u)) =>
        IF layout.p + 25 + 10 * layout.len > layout.W - 20
        THEN layout.left = layout.p - 25 - 10 * layout.len
        ELSE layout.left = layout.p + 25 + 2 * layout.len

\* a marker at the right edge of the viewport got its label on its left
C16_Witness ==
    /\ layout.stage = "placed"
    /\ layout.p = layout.W
    /\ ~InClearZone(layout.W, layout.H, layout.p, layout.u)
    /\ layout.left < layout.p

(***************************************************************************)
(* The visibility test of the hotspot at lat = 0, lng = 0, for a camera on *)
(* the line through the globe's centre and the hotspot, looking at the     *)
(* centre.  Positions are coordinates on that line, in tenths of a unit;   *)
(* the hotspot is on the positive side.                                    *)
(***************************************************************************)

GlobeRadius == 20
HotspotRadius == 21
OcclusionTolerance == 1
CameraFar == 10000
\* camera distances from the focus distance 3.5 up to the orbit's 12 * 1.1
MinCameraDistance == 35
MaxCameraDistance == 132

\* r.project(camera) passes: the point is in front of the camera and not
\* beyond the far plane; on the view axis x and y are 0
InFrustum(cam, point) ==
    LET depth == (point - cam) * (-Sign(cam))
    IN  depth > 0 /\ depth <= CameraFar

\* distance of the first intersection of the ray from cam towards point with
\* the globe, -1 when the ray misses it
GlobeHit(cam, point) ==
    IF Sign(point - cam) = -Sign(cam) /\ Abs(cam) > GlobeRadius
    THEN Abs(cam) - GlobeRadius
    ELSE -1

\* the visibility test without the comparison of the two distances
IsVisible_NoOcclusion(cam, point) ==
    InFrustum(cam, point)

\* a(r): false outside the frustum; with an intersection of the globe on the
\* ray, true iff it is farther than the point less the tolerance
IsVisible(cam, point) ==
    IF ~InFrustum(cam, point) THEN FALSE
    ELSE IF GlobeHit(cam, point) >= 0
         THEN GlobeHit(cam, point) > Abs(point - cam) - OcclusionTolerance
         ELSE TRUE

InitOcclusion ==
    /\ InitEngine
    /\ catalog = Catalog
    /\ hotspotObjects = Catalog
    /\ labels = [i \in DOMAIN Catalog |-> NewLabel]
    /\ seen = [i \in DOMAIN Catalog |-> FALSE]
    /\ geo = Idle
    /\ layout = Idle
    /\ \E dist \in MinCameraDistance..MaxCameraDistance, side \in {-1, 1} :
           occl = [stage |-> "camera", cam |-> side * dist, visible |-> FALSE]

\* onBeforeRender runs the visibility test
TestVisibility ==
    /\ occl.stage = "camera"
    /\ occl' = [occl EXCEPT !.stage = "tested",
                            !.visible = IsVisible(occl.cam, HotspotRadius)]
    /\ lastOp' = "onBeforeRender"
    /\ UNCHANGED <<restVars, orbitHistory, orbitLog, callbackLog,
                   hotspotObjects, labels, seen, frames,
                   catalog, geo, layout>>

NextOcclusion == TestVisibility

SpecOcclusion == InitOcclusion /\ [][NextOcclusion]_vars

\* C17: for the hotspot at lat = 0, lng = 0 and a camera on the line through
\* the centre and the hotspot, the test is true when the camera is on the
\* hotspot's side and false when it is on the antipodal side.
C17_OcclusionOnAxis ==
    occl.stage = "tested" => (occl.visible <=> occl.cam > 0)

\* the camera is on the antipodal side and the hotspot is found occluded
C17_Witness ==
    occl.stage = "tested" /\ occl.cam < 0 /\ ~occl.visible

(***************************************************************************)
(* Leaving the focus by scrolling.  Interaction.init registers the wheel,  *)
(* keydown and mousemove listeners only: handleTouchMove, which holds the  *)
(* threshold test, and the drag handlers receive no event.                 *)
(***************************************************************************)

\* C18 as stated: once the downward scroll received while Locked has passed
\* the threshold, the engine has left the focus.
C18_ScrollPastThresholdExits ==
    lockedScroll > ExitScrollThreshold => ~inHotspotMode

\* C18: while Locked, wheel input of any size only zooms; the focus is left
\* by an explicit exit request only (Escape, ArrowDown, the external exit
\* call), never by accumulated scroll.
C18_OnlyExitRequestsLeaveFocus ==
    [][(inHotspotMode /\ ~inHotspotMode') => Called(ExitRequests)]_vars

\* the wheel has turned downward past the threshold and the focus is still
\* locked
C18_Witness ==
    lastOp = "wheel" /\ lockedScroll > ExitScrollThreshold /\ inHotspotMode

(***************************************************************************)
(* The callbacks registered by App.init                                    *)
(***************************************************************************)

\* C19: each completed focus transition calls the callback registered with
\* setHotspotSelectCallback once, with the hotspot, and each exit from the
\* focus calls the callback registered with setHotspotExitCallback once.
C19_CallbacksHonoured ==
    [][/\ lastOp' = "focusComplete" =>
            callbackLog' = Append(callbackLog,
                              [cb |-> "select", h |-> Head(focusAnims).h])
       /\ (inHotspotMode /\ ~inHotspotMode') =>
            callbackLog' = Append(callbackLog, [cb |-> "exit", h |-> NoTarget])
      ]_vars

(***************************************************************************)
(* resetView in every mode                                                 *)
(***************************************************************************)

MaxResetInputs == 3

\* resetView between arrow keys, zoom, wheel and a focus cycle
NextReset ==
    \/ inputs < MaxResetInputs /\ KeyReset
    \/ inputs < MaxResetInputs /\ \E k \in ArrowKeys : KeyArrow(k)
    \/ inputs < MaxResetInputs /\ \E z \in BOOLEAN : KeyZoom(z)
    \/ inputs < MaxResetInputs /\ \E dy \in Deltas : HandleMouseWheel(dy)
    \/ inputs < MaxResetInputs /\ \E t \in Hotspots : OnMouseClick(t)
    \/ inputs < MaxResetInputs /\ ExitHotspotModeExternal
    \/ FocusComplete
    \/ RedirectComplete
    \/ ExitTimerFire
    \/ ArrowTimerFire
    \/ ScrollTimerFire
    \/ AutoHideFire
    \/ AdvanceToDue

SpecReset == Init /\ [][NextReset]_vars

\* C20: resetView sets zoomLevel to 1 and currentSpeed to baseSpeed and leaves
\* orbitAngle, inclination, isOrbiting and inHotspotMode unchanged, in every
\* mode.
C20_ResetViewFrame ==
    [][Called({"resetView"}) =>
          /\ zoomLevel' = ZoomOne
          /\ currentSpeed' = BaseSpeed
          /\ UNCHANGED <<orbitAngle, inclination, isOrbiting, inHotspotMode>>
      ]_vars

\* resetView was called in Locked mode, away from the start of the orbit
C20_Witness ==
    /\ lastOp = "resetView"
    /\ inHotspotMode
    /\ orbitAngle # BaseSpeed
    /\ zoomLevel = ZoomOne

(***************************************************************************)
(* The tilt of the orbit                                                   *)
(***************************************************************************)

MaxTiltInputs == 19
TiltKeys == {"ArrowUp", "ArrowDown"}

\* long runs of ArrowUp and ArrowDown, each pressed after the restore timer of
\* the previous one, with a focus in between
NextTilt ==
    \/ inputs < MaxTiltInputs /\ timers500 = <<>>
          /\ \E k \in TiltKeys : KeyArrow(k)
    \/ inputs < MaxTiltInputs /\ Mode = "Orbiting" /\ OnMouseClick("abysses")
    \/ FocusComplete
    \/ RedirectComplete
    \/ ExitTimerFire
    \/ ArrowTimerFire
    \/ AutoHideFire
    \/ AdvanceToDue

SpecTilt == Init /\ [][NextTilt]_vars

\* C22: 0.1 <= inclination <= PI/3 in every reachable state, whatever the
\* ArrowUp and ArrowDown presses; an arrow press made while Locked leaves
\* inclination unchanged.
C22_InclinationWithinBounds ==
    /\ [](MinInclination <= inclination /\ inclination <= MaxInclination)
    /\ [][(Called(ArrowKeys) /\ inHotspotMode) => UNCHANGED inclination]_vars

\* an ArrowUp was cut off at PI/3
C22_Witness ==
    lastOp = "ArrowUp" /\ inclination = MaxInclination

(***************************************************************************)
(* Focus lock and the orbit flag                                           *)
(***************************************************************************)

\* C24: inHotspotMode implies that isOrbiting is false, for every interleaving
\* of activations, focus completions, exits with their resume timer and arrow
\* presses with their restore timers.
C24_LockSuspendsOrbit ==
    inHotspotMode => ~isOrbiting

(***************************************************************************)
(* Coalesced wheel events                                                  *)
(***************************************************************************)

\* C29: a wheel delta that was only accumulated is applied to currentSpeed
\* without a further wheel event: when the quiet-period timer fires,
\* scrollAccumulator is 0.
C29_NoStrandedDelta ==
    lastOp = "scrollTimer" => scrollAccumulator = 0

(***************************************************************************)
(* The redirect that follows a focus.  The event loop runs every due       *)
(* callback and time goes on.                                              *)
(***************************************************************************)

MaxRedirectInputs == 3

NextRedirect ==
    \/ inputs < MaxRedirectInputs /\ \E t \in ClickTargets : OnMouseClick(t)
    \/ inputs < MaxRedirectInputs /\ ExitHotspotModeExternal
    \/ inputs < MaxRedirectInputs /\ KeyEscape
    \/ FocusComplete
    \/ RedirectComplete
    \/ ExitTimerFire
    \/ AdvanceSmall
    \/ AutoHideFire
    \/ AdvanceToDue

SpecRedirect ==
    /\ Init
    /\ [][NextRedirect]_vars
    /\ WF_vars(FocusComplete)
    /\ WF_vars(RedirectComplete)
    /\ WF_vars(ExitTimerFire)
    /\ WF_vars(AdvanceToDue)

\* the fade of the redirect to hotspot h is running
RedirectPending(h) == \E i \in DOMAIN redirects : redirects[i].h = h

\* C27: once the focus transition for hotspot h has completed, the page
\* eventually navigates to the redirect URL of h.id, whatever input arrives
\* during the fade, exitHotspotMode included; and the page navigates only to
\* the URL of a hotspot whose focus transition completed.
C27_FocusLeadsToRedirect ==
    /\ \A h \in Hotspots : RedirectPending(h) ~> (navigated = re(h))
    /\ [][navigated' # navigated =>
              (redirects # <<>> /\ navigated' = re(Head(redirects).h))]_vars

\* the page navigated although the focus had been left during the fade
C27_Witness ==
    lastOp = "redirect" /\ navigated = re("abysses") /\ ~inHotspotMode

(***************************************************************************)
(* The visibility of the interface                                         *)
(***************************************************************************)

MaxInterfaceInputs == 3

NextInterface ==
    \/ inputs < MaxInterfaceInputs /\ KeyH
    \/ inputs < MaxInterfaceInputs /\ MouseMove
    \/ inputs < MaxInterfaceInputs /\ KeyEscape
    \/ inputs < MaxInterfaceInputs /\ \E dy \in Deltas : HandleMouseWheel(dy)
    \/ ScrollTimerFire
    \/ AutoHideFire
    \/ AdvanceSmall
    \/ AdvanceToDue

SpecInterface == Init /\ [][NextInterface]_vars

\* C30: the 'h' key toggles the interface: hidden before the key, it is
\* visible after it, and visible before, it is hidden after; and once 10 s
\* have passed without a key, wheel or mouse-move event it is hidden.
C30_ToggleAndAutoHide ==
    /\ [][Called({"h"}) => interfaceVisible' = ~interfaceVisible]_vars
    /\ [](autoHideTimeout = NoTimer => ~interfaceVisible)

(***************************************************************************)
(* The orbit in the frame loop                                             *)
(***************************************************************************)

MaxOrbitInputs == 3
MaxOrbitFrames == 2

\* frames between arrow keys, activations and exits
NextOrbit ==
    \/ inputs < MaxOrbitInputs /\ \E k \in ModeArrowKeys : KeyArrow(k)
    \/ inputs < MaxOrbitInputs /\ OnMouseClick("abysses")
    \/ inputs < MaxOrbitInputs /\ ExitHotspotModeExternal
    \/ FocusComplete
    \/ RedirectComplete
    \/ ExitTimerFire
    \/ ArrowTimerFire
    \/ AutoHideFire
    \/ frames < MaxOrbitFrames /\ Animate
    \/ AdvanceToDue

SpecOrbit == Init /\ [][NextOrbit]_vars

\* C21: an animation frame advances orbitAngle and appends to orbitHistory
\* only in Orbiting mode; a frame rendered while a focus animation is in
\* flight, while Locked or while the exit delay is pending leaves both
\* unchanged.
C21_OrbitAdvancesOnlyWhenOrbiting ==
    [][(lastOp' = "animate" /\ frames' = frames + 1 /\ Mode # "Orbiting")
          => UNCHANGED <<orbitAngle, orbitHistory>>]_vars

(***************************************************************************)
(* orbitHistory over a long run of frames                                  *)
(***************************************************************************)

MaxHistoryFrames == 102

NextHistory == frames < MaxHistoryFrames /\ Animate

SpecHistory == Init /\ [][NextHistory]_vars

\* the last n entries of a sequence
LastOf(seq, n) == SubSeq(seq, Len(seq) - n + 1, Len(seq))

\* C23: after every orbit tick orbitHistory has at most 100 entries and
\* holds, in order, the most recent camera positions produced by
\* updateCameraPosition.
C23_HistoryIsBoundedFifo ==
    /\ Len(orbitHistory) <= 100
    /\ orbitHistory = LastOf(orbitLog, Min(100, Len(orbitLog)))

\* the 101st position was appended and the oldest one dropped
C23_Witness ==
    /\ lastOp = "animate"
    /\ Len(orbitLog) = 101
    /\ Len(orbitHistory) = 100
    /\ orbitHistory[1] = orbitLog[2]

(***************************************************************************)
(* Picking a hotspot from a click on the globe                             *)
(***************************************************************************)

PickRadius == 10
PickLats == {0, 45}
PickLngs == {-180, 0, 90}
PickCatalogs ==
    {<<[id |-> "abysses", lat |-> la1, lng |-> ln1],
       [id |-> "arctique", lat |-> la2, lng |-> ln2]>> :
         la1 \in PickLats, ln1 \in PickLngs, la2 \in PickLats, ln2 \in PickLngs}

\* square of the distance _findNearestHotspot measures: Euclidean, in degrees
DegDist2(lat, lng, h) == (h.lat - lat) * (h.lat - lat) + (h.lng - lng) * (h.lng - lng)

\* the loop of _findNearestHotspot(e, t, i) from entry k on: o is the index
\* of the best hotspot so far (0 for null), n2 the square of its distance
RECURSIVE NearestFrom(_, _, _, _, _, _)
NearestFrom(objects, k, e, t, o, n2) ==
    IF k > Len(objects) THEN o
    ELSE IF DegDist2(e, t, objects[k]) < n2
         THEN NearestFrom(objects, k + 1, e, t, k, DegDist2(e, t, objects[k]))
         ELSE NearestFrom(objects, k + 1, e, t, o, n2)

FindNearestHotspot(objects, e, t, i) == NearestFrom(objects, 1, e, t, 0, i * i)

\* the globe with two markers and a click on the point of the globe whose
\* geographic position is (lat, lng)
InitPick ==
    /\ InitEngine
    /\ catalog \in PickCatalogs
    /\ hotspotObjects = catalog
    /\ labels = [i \in DOMAIN catalog |-> NewLabel]
    /\ seen = [i \in DOMAIN catalog |-> FALSE]
    /\ layout = Idle
    /\ occl = Idle
    /\ \E lat \in GridLats, lng \in GridLngs :
           geo = [stage |-> "entry", lat |-> lat, lng |-> lng,
                  o |-> HotspotDirection(lat, lng),
                  outLat |-> 0, outLng |-> 0, picked |-> 0]

\* onMouseClick with the ray hitting the globe at geo.o: the point is
\* converted and the nearest hotspot within 10 is looked up
ClickOnGlobe ==
    /\ geo.stage = "entry"
    /\ ~inHotspotMode
    /\ LET g == ClickToGeo(geo.o)
       IN  geo' = [geo EXCEPT !.stage = "picked", !.outLat = g.lat,
                              !.outLng = g.lng,
                              !.picked = FindNearestHotspot(hotspotObjects,
                                             g.lat, g.lng, PickRadius)]
    /\ lastOp' = "onMouseClick"
    /\ UNCHANGED <<restVars, orbitHistory, orbitLog, callbackLog,
                   hotspotObjects, labels, seen, frames,
                   catalog, layout, occl>>

NextPick == ClickOnGlobe

SpecPick == InitPick /\ [][NextPick]_vars

\* the clicked point lies within 10 degrees of hotspot h: in latitude and
\* longitude, or because it is the very point the marker stands on
WithinTen(lat, lng, h) ==
    \/ DegDist2(lat, lng, h) <= 100
    \/ HotspotDirection(lat, lng) = HotspotDirection(h.lat, h.lng)

\* C28: the nearest-hotspot search of a globe click activates hotspot h only
\* if the real latitude and longitude of the clicked point lie within 10
\* degrees of h.position with h at minimal distance; a click farther than
\* 10 degrees from every hotspot activates none through the search.
C28_ClickPicksByGeography ==
    (geo.stage = "picked" /\ geo.picked # 0) =>
        /\ WithinTen(geo.lat, geo.lng, hotspotObjects[geo.picked])
        /\ \A i \in DOMAIN hotspotObjects :
               DegDist2(geo.lat, geo.lng, hotspotObjects[geo.picked])
                   <= DegDist2(geo.lat, geo.lng, hotspotObjects[i])

(***************************************************************************)
(* The camera: zoom, arrow keys and resetView around a locked focus        *)
(***************************************************************************)

MaxCameraInputs == 5
\* ms between two presses of a key that is held down
KeyRepeat == 200
LockedKeys == {"ArrowLeft", "ArrowUp"}

\* the time between two repeated key presses passes
AdvanceRepeat ==
    /\ Tick(KeyRepeat)
    /\ UNCHANGED smalls

\* one activation, then zoom-ins, arrow keys and resetView once the focus is
\* locked, with the key repeat as the time between them
NextCamera ==
    \/ inputs < MaxCameraInputs /\ Mode = "Orbiting" /\ OnMouseClick("abysses")
    \/ inputs < MaxCameraInputs /\ inHotspotMode /\ KeyZoom(TRUE)
    \/ inputs < MaxCameraInputs /\ inHotspotMode /\ \E k \in LockedKeys : KeyArrow(k)
    \/ inputs < MaxCameraInputs /\ inHotspotMode /\ KeyReset
    \/ FocusComplete
    \/ RedirectComplete
    \/ ArrowTimerFire
    \/ AutoHideFire
    \/ inHotspotMode /\ AdvanceRepeat
    \/ AdvanceToDue

SpecCamera == Init /\ [][NextCamera]_vars

\* C25: while Locked, ArrowLeft, ArrowRight, ArrowUp and resetView do not
\* move the camera off the hotspot ray - they never place it on the ellipse
\* nor send it there - and do not change orbitAngle.
C25_LockedKeysLeaveCamera ==
    [][(Called({"ArrowLeft", "ArrowRight", "ArrowUp", "resetView"})
            /\ inHotspotMode)
          => /\ orbitAngle' = orbitAngle
             /\ camera'.place # "ellipse"
             /\ \A i \in DOMAIN cameraTweens' :
                    i > Len(cameraTweens) => cameraTweens'[i].place # "ellipse"
      ]_vars

\* C26: the camera never reaches the globe: on the ray above a hotspot and
\* on the ellipse, whose nearest point is ellipseMinorAxis times the scale
\* away, its distance from the centre stays above the radius 2.
C26_CameraOutsideGlobe ==
    /\ camera.place = "ray" => camera.scale > 1000 * GlobeRadius
    /\ camera.place = "ellipse" =>
           EllipseMinorAxis * camera.scale > 1000 * GlobeRadius
====
